---- MODULE Spec2Model ----
(***************************************************************************)
(* Session / authentication / request-dispatch core of the analytics MCP   *)
(* server (src/app/tools/core.py, src/app/tools/auth.py).                  *)
(*                                                                         *)
(* Every await on the shared httpx client is a suspension point, so a      *)
(* handler is cut into steps: one step runs from the resumption of a       *)
(* coroutine up to its next await (or its return).  The upstream platform  *)
(* answers every request with a response drawn from a small set.           *)
(***************************************************************************)
EXTENDS Integers, Sequences, FiniteSets, TLC

\* ------------------------------------------------------------------ values
\* Optional values (Python None / a value).  Strings that are stripped or
\* tested for truthiness are sequences of characters.
None == [some |-> FALSE, v |-> <<>>]
Some(s) == [some |-> TRUE, v |-> s]

\* Python truthiness of an Optional[str]: None and "" are falsy.
Falsy(x) == ~x.some \/ x.v = <<>>
Truthy(x) == ~Falsy(x)

\* x or y
PyOr(x, y) == IF Truthy(x) THEN x ELSE y

Whitespace == {" ", "\n"}

RECURSIVE LStrip(_)
LStrip(s) == IF s # <<>> /\ Head(s) \in Whitespace THEN LStrip(Tail(s)) ELSE s

RECURSIVE RStrip(_)
RStrip(s) == IF s # <<>> /\ s[Len(s)] \in Whitespace
             THEN RStrip(SubSeq(s, 1, Len(s) - 1)) ELSE s

\* str.strip()
Strip(s) == RStrip(LStrip(s))

\* f"Bearer {token}"
Bearer(t) == Some(<<"Bearer ">> \o t)

TokA == <<"a">>
TokB == <<"b">>
TokPad == <<"b", " ">>

\* access_token field of a refresh / login response body
TokenFields == {None, Some(<<>>), Some(TokB), Some(TokPad)}
\* content of the token cache file when the process starts (None: no file)
InitialCacheFiles == {None, Some(<<" ">>), Some(TokA), Some(<<"a", "\n">>)}
\* "result" field of a CSRF response body
CsrfFields == {None, Some(<<"x">>), Some(<<"y">>)}

JsonText == "{json}"
PlainText == "not found"
Texts == {JsonText, PlainText}

\* response.json(): does the body parse
Parses(text) == text = JsonText

\* ------------------------------------------------------------- responses
\* exc: the call failed at transport level (httpx raised); otherwise an HTTP
\* response with a status, a body text and, for a JSON body, the field the
\* caller extracts from it (access_token / result).
Response(status, text, field) ==
    [exc |-> FALSE, status |-> status, text |-> text, field |-> field]
TransportFailure == [exc |-> TRUE, status |-> 0, text |-> "connect failed", field |-> None]
NoResponse == [exc |-> FALSE, status |-> -1, text |-> "", field |-> None]

ApiStatuses == {200, 201, 401, 404}
ApiResponses ==
    {Response(s, t, None) : s \in ApiStatuses, t \in Texts} \cup {TransportFailure}
MeResponses ==
    {Response(200, JsonText, None), Response(401, PlainText, None), TransportFailure}
TokenResponses ==
    {Response(200, JsonText, f) : f \in TokenFields}
    \cup {Response(200, PlainText, None), Response(401, PlainText, None), TransportFailure}
CsrfResponses ==
    {Response(200, JsonText, f) : f \in CsrfFields}
    \cup {Response(200, PlainText, None), Response(500, PlainText, None), TransportFailure}

\* ---------------------------------------------------------------- results
\* What an invocation hands back: a returned dict (out = "return") or an
\* exception that leaves the function (out = "raise", shape = its class).
Result(out, shape, status, text, tok, tool, msg) ==
    [out |-> out, shape |-> shape, status |-> status, text |-> text,
     tok |-> tok, tool |-> tool, msg |-> msg]
Return(shape) == Result("return", shape, 0, "", None, "", "")
ReturnStatus(shape, status, text) == Result("return", shape, status, text, None, "", "")
ReturnToken(shape, tok) == Result("return", shape, 0, "", tok, "", "")
ReturnMsg(shape, msg) == Result("return", shape, 0, "", None, "", msg)
Raise(class, msg) == Result("raise", class, 0, "", None, "", msg)
NoResult == Result("none", "", 0, "", None, "", "")

\* shapes whose dict has a non-empty "error" entry
ErrorShapes ==
    {"unauthenticated", "error_in", "api_failed", "invalid_no_token", "invalid_exc",
     "no_token_to_refresh", "refresh_failed", "refresh_no_token", "refresh_exc",
     "no_credentials", "login_failed", "login_no_token", "login_exc",
     "export_failed", "export_exc"}
\* result.get("error")
HasError(r) ==
    \/ r.shape \in ErrorShapes
    \/ r.shape = "invalid_status" /\ r.text # ""

\* ------------------------------------------------------------------ state
VARIABLES
    phase,          \* lifespan position: "init", "verifying", "serving", then
                    \* "stopped" (normal stop) or "failed" (exception)
    access_token,   \* AnalyticsContext.access_token
    auth_header,    \* client.headers["Authorization"] (None: not set)
    csrf_token,     \* AnalyticsContext.csrf_token
    cache_file,     \* content of TOKEN_CACHE_PATH (None: no such file)
    env,            \* ANALYTICS_USER / ANALYTICS_PASS
    inv,            \* the tool invocations in flight, one per slot
    startup_log,    \* the requests analytics_lifespan sent before yielding
    clients_created,\* httpx.AsyncClient(...) constructions
    close_count,    \* client.aclose() calls
    last_obtained   \* token of the refresh / login response processed last

vars == <<phase, access_token, auth_header, csrf_token, cache_file, env, inv,
          startup_log, clients_created, close_count, last_obtained>>
session == <<access_token, auth_header, csrf_token, cache_file>>
\* what only analytics_lifespan touches
lifecycle == <<phase, startup_log, clients_created, close_count>>

Procs == {1}

SupportedMethods == {"get", "post", "put", "delete"}
MethodArgs == {"get", "GET", "post", "put", "delete", "patch"}

\* method.lower()
Lower(m) == IF m = "GET" THEN "get" ELSE m

UserArgs == {None, Some(<<"u">>)}
EnvSettings == {[user |-> None, pass |-> None],
                [user |-> Some(<<"admin">>), pass |-> Some(<<"pw">>)]}

\* one HTTP request as the shared client sends it (params, json: does it carry
\* the query parameters / the JSON body its caller was given)
Request(ep, verb, hdr, csrf) ==
    [ep |-> ep, verb |-> verb, auth |-> hdr, csrf |-> csrf, params |-> FALSE,
     json |-> FALSE, resp |-> NoResponse]

Idle ==
    [pc |-> "idle", kind |-> "none", name |-> "", method |-> "", auto_refresh |-> FALSE,
     wrapped |-> FALSE, ctx_ok |-> TRUE, username |-> None, password |-> None,
     refresh |-> FALSE, log |-> <<>>, body |-> FALSE, tok |-> <<>>, warned |-> FALSE,
     data |-> FALSE, params |-> FALSE, result |-> NoResult]

\* the response of the request in flight arrives
Answered(rec, resp) == [rec EXCEPT !.log[Len(rec.log)].resp = resp]
Sending(rec, pc, req) == [rec EXCEPT !.pc = pc, !.log = Append(@, req)]

\* ------------------------------------------------------------ tool guards
Unauthenticated == Return("unauthenticated")

\* requires_authentication: `if not analytics_ctx.access_token`
GuardNever(tok) == FALSE
GuardBlocks(tok) == Falsy(tok)

\* handle_platform_errors: except Exception as e -> {"error": "Error in <name>: <e>"}
handle_platform_errors(name, r) ==
    IF r.out = "raise"
    THEN Result("return", "error_in", 0, "", None, name, r.msg)
    ELSE r

\* the invocation ends with r (through the error-normalization guard when the
\* running function is decorated with it)
Done(rec, r) ==
    [rec EXCEPT !.pc = "done",
                !.result = IF rec.wrapped THEN handle_platform_errors(rec.name, r) ELSE r]

\* ------------------------------------------------------- credential cache
\* load_cached_token: Optional[str]; any I/O failure gives None
load_cached_token(file, readOk) ==
    IF file.some /\ readOk THEN Some(Strip(file.v)) ELSE None

\* cache_access_token: open(path, "w") then write; failures are only logged
WriteOutcomes == {"written", "open_failed", "write_failed"}
\* line 58: logger.warning("Warning: Could not cache access token")
CacheWarning(outcome) == outcome # "written"
cache_access_token_skip(file, token, outcome) == file
cache_access_token(file, token, outcome) ==
    CASE outcome = "written" -> Some(token)
      [] outcome = "open_failed" -> file
      [] outcome = "write_failed" -> Some(<<>>)

\* -------------------------------------------------------- CSRF provisioner
\* fetch_csrf_token: the value of ctx.csrf_token after the response
fetch_csrf_token(cur, resp) ==
    IF ~resp.exc /\ resp.status = 200 /\ Parses(resp.text) THEN resp.field ELSE cur

\* ------------------------------------------------------ request dispatcher
\* make_platform_request lines 172-176: the result for the final response
MapResponseOnly200(resp) ==
    IF resp.status # 200
    THEN ReturnStatus("api_failed", resp.status, resp.text)
    ELSE IF Parses(resp.text) THEN ReturnStatus("json", 0, resp.text)
         ELSE Raise("JSONDecodeError", "Expecting value")
MapResponse(resp) ==
    IF resp.status \notin {200, 201}
    THEN ReturnStatus("api_failed", resp.status, resp.text)
    ELSE IF Parses(resp.text) THEN ReturnStatus("json", 0, resp.text)
         ELSE Raise("JSONDecodeError", "Expecting value")

\* make_request: the X-CSRFToken header of the call built for `method`
CsrfHeader(method, ct) ==
    IF Lower(method) # "get" /\ Truthy(ct) THEN ct ELSE None

\* make_request lines 155-164: the keyword arguments of the client call.
\* get(endpoint, params=params); post(endpoint, json=data, params=params,
\* headers=headers); put(endpoint, json=data, headers=headers);
\* delete(endpoint, headers=headers)
QueryParams(method, params) == params /\ Lower(method) \in {"get", "post"}
JsonBody(method, data) == data /\ Lower(method) \in {"post", "put"}

\* lines 167-171 with auto_refresh_token lines 182-186 and make_request:
\* everything up to the await of the underlying call
Execute(rec, at, ct, hdr) ==
    IF rec.auto_refresh /\ Falsy(at)
    THEN Done(rec, Raise("NameError", "name 'HTTPException' is not defined"))
    ELSE IF Lower(rec.method) \notin SupportedMethods
    THEN Done(rec, Raise("ValueError", "Unsupported HTTP method"))
    ELSE Sending(rec, "api_wait",
                 [Request("api", Lower(rec.method), hdr, CsrfHeader(rec.method, ct))
                     EXCEPT !.params = QueryParams(rec.method, rec.params),
                            !.json = JsonBody(rec.method, rec.data)])

\* make_platform_request lines 147-150, then Execute
DispatchBegin(rec, at, ct, hdr) ==
    IF Lower(rec.method) # "get" /\ Falsy(ct)
    THEN Sending(rec, "csrf_wait", Request("csrf", "get", hdr, None))
    ELSE Execute(rec, at, ct, hdr)

\* auto_refresh_token lines 186-205 once the underlying call has answered.
\* Line 196 imports analytics_auth_refresh_token and
\* analytics_auth_authenticate_user from the auth module, where they are
\* closures of register_auth_tools and not module attributes: the import
\* raises ImportError, and lines 197-205 are never reached.
auto_refresh_token_swallows(resp) ==
    IF resp.exc THEN ReturnStatus("api_failed", 0, resp.text)
    ELSE IF resp.status # 401 THEN MapResponse(resp)
    ELSE Raise("ImportError", "cannot import name 'analytics_auth_refresh_token'")
auto_refresh_token(resp) ==
    IF resp.exc THEN Raise("TransportError", resp.text)
    ELSE IF resp.status # 401 THEN MapResponse(resp)
    ELSE Raise("ImportError", "cannot import name 'analytics_auth_refresh_token'")

\* make_platform_request with auto_refresh=False: make_request executed once
direct_request(resp) ==
    IF resp.exc THEN Raise("TransportError", resp.text) ELSE MapResponse(resp)

\* ------------------------------------------------------------ authenticator
\* analytics_auth_check_token_validity lines 24-35
CheckOutcomeLenient(resp) ==
    IF resp.exc THEN ReturnMsg("invalid_exc", resp.text)
    ELSE IF resp.status \in {200, 401} THEN Return("valid")
    ELSE ReturnStatus("invalid_status", resp.status, resp.text)
CheckOutcome(resp) ==
    IF resp.exc THEN ReturnMsg("invalid_exc", resp.text)
    ELSE IF resp.status = 200 THEN Return("valid")
    ELSE ReturnStatus("invalid_status", resp.status, resp.text)

\* analytics_auth_refresh_token lines 49-67: the dict it returns
RefreshOutcomeAnyToken(resp) ==
    IF resp.exc THEN ReturnMsg("refresh_exc", resp.text)
    ELSE IF resp.status # 200 THEN ReturnStatus("refresh_failed", resp.status, resp.text)
    ELSE IF ~Parses(resp.text) THEN ReturnMsg("refresh_exc", "Expecting value")
    ELSE ReturnToken("refreshed", resp.field)
RefreshOutcome(resp) ==
    IF resp.exc THEN ReturnMsg("refresh_exc", resp.text)
    ELSE IF resp.status # 200 THEN ReturnStatus("refresh_failed", resp.status, resp.text)
    ELSE IF ~Parses(resp.text) THEN ReturnMsg("refresh_exc", "Expecting value")
    ELSE IF Falsy(resp.field) THEN Return("refresh_no_token")
    ELSE ReturnToken("refreshed", resp.field)

\* analytics_auth_authenticate_user lines 115-122 and 131-132: the error dict
\* of a login response that yields no token (NoResult: it yields one)
LoginErrorNoTokenCheck(resp) ==
    IF resp.exc THEN ReturnMsg("login_exc", resp.text)
    ELSE IF resp.status # 200 THEN ReturnStatus("login_failed", resp.status, resp.text)
    ELSE IF ~Parses(resp.text) THEN ReturnMsg("login_exc", "Expecting value")
    ELSE NoResult
LoginError(resp) ==
    IF resp.exc THEN ReturnMsg("login_exc", resp.text)
    ELSE IF resp.status # 200 THEN ReturnStatus("login_failed", resp.status, resp.text)
    ELSE IF ~Parses(resp.text) THEN ReturnMsg("login_exc", "Expecting value")
    ELSE IF Falsy(resp.field) THEN Return("login_no_token")
    ELSE NoResult

\* analytics_auth_authenticate_user lines 126-130: the dict returned after
\* `await fetch_csrf_token(ctx)` answered with csrf_resp
LoginResultNeedsCsrf(tok, csrf_resp) ==
    IF ~csrf_resp.exc /\ csrf_resp.status = 200
    THEN ReturnToken("authenticated", Some(tok))
    ELSE ReturnMsg("login_exc", csrf_resp.text)
LoginResult(tok, csrf_resp) == ReturnToken("authenticated", Some(tok))

\* analytics_auth_authenticate_user lines 99-114: resolve the credentials and
\* issue the login POST
LoginBeginNoCheck(rec, hdr) ==
    Sending(rec, "login_wait", Request("login", "post", hdr, None))
LoginBegin(rec, hdr) ==
    IF Falsy(PyOr(rec.username, env.user)) \/ Falsy(PyOr(rec.password, env.pass))
    THEN Done(rec, Return("no_credentials"))
    ELSE Sending(rec, "login_wait", Request("login", "post", hdr, None))

\* analytics_auth_refresh_token lines 46-50 as called from line 96
RefreshBegin(rec, at, hdr) ==
    IF Falsy(at) THEN LoginBegin(rec, hdr)
    ELSE Sending(rec, "refresh_wait", Request("refresh", "post", hdr, None))

\* analytics_auth_authenticate_user lines 90-98 once the validity is known
AfterValidityNoShortcut(rec, validity, at, hdr) ==
    IF rec.refresh THEN RefreshBegin(rec, at, hdr)
    ELSE LoginBegin(rec, hdr)
AfterValidity(rec, validity, at, hdr) ==
    IF validity.shape = "valid"
    THEN Done(rec, ReturnToken("already_authenticated", at))
    ELSE IF rec.refresh THEN RefreshBegin(rec, at, hdr)
    ELSE LoginBegin(rec, hdr)

\* auth.py lines 60 and 124: `analytics_ctx.access_token = access_token`, a
\* plain assignment to the shared context, with no lock and no comparison
StoreTokenFirstWins(cur, new) == IF Truthy(cur) THEN cur ELSE new
StoreToken(cur, new) == new

\* ----------------------------------------------------------------- actions
Init ==
    /\ phase = "init"
    /\ access_token = None
    /\ auth_header = None
    /\ csrf_token = None
    /\ cache_file \in InitialCacheFiles
    /\ env \in EnvSettings
    /\ inv = [p \in Procs |-> Idle]
    /\ startup_log = <<>>
    /\ clients_created = 0
    /\ close_count = 0
    /\ last_obtained = None

\* analytics_lifespan lines 73-82: the token kept after the identity check
VerifiedTokenKept(tok, resp) == tok
VerifiedToken(tok, resp) ==
    IF resp.exc \/ resp.status # 200 THEN None ELSE tok

\* analytics_lifespan lines 83-87: `try: yield ctx  finally: await
\* client.aclose()`; the aclose() calls made when serving ends for `reason`
StopReasons == {"stop", "exception"}
CloseCallsNoFinally(reason) == IF reason = "stop" THEN 1 ELSE 0
CloseCalls(reason) == 1

\* analytics_lifespan lines 64-72: build the context, install a cached token
\* and issue the identity check
LifespanOpen ==
    /\ phase = "init"
    /\ \E readOk \in BOOLEAN :
         LET cached_token == load_cached_token(cache_file, readOk) IN
         IF Truthy(cached_token)
         THEN /\ access_token' = cached_token
              /\ auth_header' = Bearer(cached_token.v)
              /\ startup_log' = <<Request("me", "get", auth_header', None)>>
              /\ phase' = "verifying"
         ELSE /\ phase' = "serving"
              /\ UNCHANGED <<access_token, auth_header, startup_log>>
    /\ clients_created' = clients_created + 1
    /\ UNCHANGED <<csrf_token, cache_file, env, inv, close_count, last_obtained>>

\* analytics_lifespan lines 72-84: the identity check answers, the context is
\* yielded
LifespanVerified ==
    /\ phase = "verifying"
    /\ \E resp \in MeResponses :
         /\ access_token' = VerifiedToken(access_token, resp)
         /\ auth_header' = VerifiedToken(auth_header, resp)
         /\ startup_log' = [startup_log EXCEPT ![1].resp = resp]
    /\ phase' = "serving"
    /\ UNCHANGED <<csrf_token, cache_file, env, inv, clients_created, close_count,
                   last_obtained>>

\* analytics_lifespan lines 85-87: the server stops serving (normally or by an
\* exception raised into the generator); the invocations in flight end with it
LifespanClose ==
    /\ phase = "serving"
    /\ \E reason \in StopReasons :
         /\ close_count' = close_count + CloseCalls(reason)
         /\ phase' = IF reason = "stop" THEN "stopped" ELSE "failed"
    /\ inv' = [p \in DOMAIN inv |-> Idle]
    /\ UNCHANGED <<session, env, startup_log, clients_created, last_obtained>>

Starts(p) == phase = "serving" /\ inv[p].pc = "idle"

\* main.py lines 19-22: MCP = FastMCP(name=..., instructions=...) is built
\* without lifespan=analytics_lifespan, so the server of main.py hands its
\* tools the framework's default lifespan context
MCP_lifespan == "default"
\* the lifespan whose context a tool finds in ctx.request_context
\* .lifespan_context: that of the server main.py runs, or analytics_lifespan
\* when a host enters it around the tools
Lifespans == {MCP_lifespan, "analytics_lifespan"}
\* is that context an AnalyticsContext (does it have access_token)
IsAnalyticsContext(lifespan) == lifespan = "analytics_lifespan"
ContextReadable == {IsAnalyticsContext(l) : l \in Lifespans}

\* a tool adapter decorated @requires_authentication @handle_platform_errors
\* whose body is `return await make_platform_request(ctx, method, endpoint)`
\* (dashboard.py lines 5-16 and the like)
InvokeTool(p) ==
    /\ Starts(p)
    /\ \E m \in SupportedMethods, ok \in ContextReadable :
         LET rec == [Idle EXCEPT !.kind = "tool", !.name = "analytics_dashboard_" \o m,
                                 !.method = m, !.auto_refresh = TRUE, !.wrapped = TRUE,
                                 !.ctx_ok = ok]
         IN inv' = [inv EXCEPT ![p] =
                IF ~ok
                THEN [rec EXCEPT !.pc = "done",
                                 !.result = Raise("AttributeError", "no attribute 'access_token'")]
                ELSE IF GuardBlocks(access_token)
                THEN [rec EXCEPT !.pc = "done", !.result = Unauthenticated]
                ELSE DispatchBegin([rec EXCEPT !.body = TRUE],
                                   access_token, csrf_token, auth_header)]
    /\ UNCHANGED <<lifecycle, session, env, last_obtained>>

\* make_platform_request called on its own, outside any guard, with or
\* without data and params
InvokeRequest(p) ==
    /\ Starts(p)
    /\ \E m \in MethodArgs, ar \in BOOLEAN, d \in BOOLEAN, q \in BOOLEAN :
         inv' = [inv EXCEPT ![p] =
                DispatchBegin([Idle EXCEPT !.kind = "request", !.name = "make_platform_request",
                                           !.method = m, !.auto_refresh = ar,
                                           !.data = d, !.params = q],
                              access_token, csrf_token, auth_header)]
    /\ UNCHANGED <<lifecycle, session, env, last_obtained>>

\* sqllab.py lines 120-126: the dict analytics_sqllab_export_query_results
\* returns for the answer to its own client.get (it has its own try/except
\* and returns response.text unparsed)
ExportResult(resp) ==
    IF resp.exc THEN ReturnMsg("export_exc", resp.text)
    ELSE IF resp.status # 200 THEN ReturnStatus("export_failed", resp.status, resp.text)
    ELSE ReturnStatus("exported", 0, resp.text)

\* analytics_sqllab_export_query_results, sqllab.py lines 103-119: decorated
\* @requires_authentication @handle_platform_errors, its body awaits
\* analytics_ctx.client.get(f"/api/v1/sqllab/export/{client_id}") itself
InvokeExport(p) ==
    /\ Starts(p)
    /\ \E ok \in ContextReadable :
         LET rec == [Idle EXCEPT !.kind = "export",
                                 !.name = "analytics_sqllab_export_query_results",
                                 !.method = "get", !.wrapped = TRUE, !.ctx_ok = ok]
         IN inv' = [inv EXCEPT ![p] =
                IF ~ok
                THEN [rec EXCEPT !.pc = "done",
                                 !.result = Raise("AttributeError", "no attribute 'access_token'")]
                ELSE IF GuardBlocks(access_token)
                THEN [rec EXCEPT !.pc = "done", !.result = Unauthenticated]
                ELSE Sending([rec EXCEPT !.body = TRUE], "export_wait",
                             Request("export", "get", auth_header, None))]
    /\ UNCHANGED <<lifecycle, session, env, last_obtained>>

\* sqllab.py lines 119-126: the export answers
RecvExport(p) ==
    /\ inv[p].pc = "export_wait"
    /\ \E resp \in ApiResponses :
         inv' = [inv EXCEPT ![p] = Done(Answered(inv[p], resp), ExportResult(resp))]
    /\ UNCHANGED <<lifecycle, session, env, last_obtained>>

\* fetch_csrf_token called from make_platform_request line 150 answers
RecvCsrf(p) ==
    /\ inv[p].pc = "csrf_wait"
    /\ \E resp \in CsrfResponses :
         /\ csrf_token' = fetch_csrf_token(csrf_token, resp)
         /\ inv' = [inv EXCEPT ![p] =
                Execute(Answered(inv[p], resp), access_token, csrf_token', auth_header)]
    /\ UNCHANGED <<lifecycle, access_token, auth_header, cache_file, env, last_obtained>>

\* make_platform_request lines 167-176 once the underlying call of rec has
\* answered: nothing is retried, the invocation ends
AfterCallRetrying(rec, resp) ==
    IF resp.exc /\ Len(rec.log) <= 2
    THEN Sending(rec, "api_wait", [rec.log[Len(rec.log)] EXCEPT !.resp = NoResponse])
    ELSE Done(rec, IF rec.auto_refresh THEN auto_refresh_token(resp)
                   ELSE direct_request(resp))
AfterCall(rec, resp) ==
    Done(rec, IF rec.auto_refresh THEN auto_refresh_token(resp)
              ELSE direct_request(resp))

\* the underlying call answers
RecvApi(p) ==
    /\ inv[p].pc = "api_wait"
    /\ \E resp \in ApiResponses :
         inv' = [inv EXCEPT ![p] = AfterCall(Answered(inv[p], resp), resp)]
    /\ UNCHANGED <<lifecycle, session, env, last_obtained>>

\* the tools of register_auth_tools are decorated with handle_platform_errors
\* only; reading the context happens in their body
AuthTool(kind, name, ok) ==
    [Idle EXCEPT !.kind = kind, !.name = name, !.wrapped = TRUE, !.ctx_ok = ok, !.body = TRUE]
ContextFailure(rec) == Done(rec, Raise("AttributeError", "no attribute 'access_token'"))

\* analytics_auth_check_token_validity lines 21-25
InvokeCheck(p) ==
    /\ Starts(p)
    /\ \E ok \in ContextReadable :
         LET rec == AuthTool("check", "analytics_auth_check_token_validity", ok) IN
         inv' = [inv EXCEPT ![p] =
                IF ~ok THEN ContextFailure(rec)
                ELSE IF Falsy(access_token) THEN Done(rec, Return("invalid_no_token"))
                ELSE Sending(rec, "me_wait", Request("me", "get", auth_header, None))]
    /\ UNCHANGED <<lifecycle, session, env, last_obtained>>

\* analytics_auth_refresh_token lines 46-50
InvokeRefresh(p) ==
    /\ Starts(p)
    /\ \E ok \in ContextReadable :
         LET rec == AuthTool("refresh", "analytics_auth_refresh_token", ok) IN
         inv' = [inv EXCEPT ![p] =
                IF ~ok THEN ContextFailure(rec)
                ELSE IF Falsy(access_token) THEN Done(rec, Return("no_token_to_refresh"))
                ELSE Sending(rec, "refresh_wait", Request("refresh", "post", auth_header, None))]
    /\ UNCHANGED <<lifecycle, session, env, last_obtained>>

\* analytics_auth_authenticate_user lines 87-89 (and 99-114 without a token)
Authenticate(p, u, pw, r) ==
    /\ Starts(p)
    /\ \E ok \in ContextReadable :
         LET rec == [AuthTool("auth", "analytics_auth_authenticate_user", ok)
                        EXCEPT !.username = u, !.password = pw, !.refresh = r] IN
         inv' = [inv EXCEPT ![p] =
                IF ~ok THEN ContextFailure(rec)
                ELSE IF Truthy(access_token)
                THEN Sending(rec, "me_wait", Request("me", "get", auth_header, None))
                ELSE LoginBegin(rec, auth_header)]
    /\ UNCHANGED <<lifecycle, session, env, last_obtained>>

InvokeAuthenticate(p) ==
    \E u \in UserArgs, pw \in UserArgs, r \in BOOLEAN : Authenticate(p, u, pw, r)

\* the identity check of analytics_auth_check_token_validity answers
RecvMe(p) ==
    /\ inv[p].pc = "me_wait"
    /\ \E resp \in MeResponses :
         LET rec == Answered(inv[p], resp) IN
         inv' = [inv EXCEPT ![p] =
                IF rec.kind = "check" THEN Done(rec, CheckOutcome(resp))
                ELSE AfterValidity(rec, CheckOutcome(resp), access_token, auth_header)]
    /\ UNCHANGED <<lifecycle, session, env, last_obtained>>

\* the refresh POST answers: analytics_auth_refresh_token lines 51-67, and
\* analytics_auth_authenticate_user lines 97-98 when it made the call
RecvRefresh(p) ==
    /\ inv[p].pc = "refresh_wait"
    /\ \E resp \in TokenResponses, w \in WriteOutcomes :
         LET refresh_result == RefreshOutcome(resp)
             rec == [Answered(inv[p], resp) EXCEPT
                        !.warned = refresh_result.shape = "refreshed" /\ CacheWarning(w)]
         IN /\ IF refresh_result.shape = "refreshed"
               THEN /\ cache_file' = cache_access_token(cache_file, resp.field.v, w)
                    /\ access_token' = StoreToken(access_token, resp.field)
                    /\ auth_header' = Bearer(resp.field.v)
                    /\ last_obtained' = resp.field
               ELSE UNCHANGED <<cache_file, access_token, auth_header, last_obtained>>
            /\ inv' = [inv EXCEPT ![p] =
                   IF rec.kind = "refresh" \/ ~HasError(refresh_result)
                   THEN Done(rec, refresh_result)
                   ELSE LoginBegin(rec, auth_header)]
    /\ UNCHANGED <<lifecycle, csrf_token, env>>

\* the login POST answers: analytics_auth_authenticate_user lines 115-126
RecvLogin(p) ==
    /\ inv[p].pc = "login_wait"
    /\ \E resp \in TokenResponses, w \in WriteOutcomes :
         LET rec == Answered(inv[p], resp) IN
         IF LoginError(resp) # NoResult
         THEN /\ inv' = [inv EXCEPT ![p] = Done(rec, LoginError(resp))]
              /\ UNCHANGED <<cache_file, access_token, auth_header, last_obtained>>
         ELSE /\ cache_file' = cache_access_token(cache_file, resp.field.v, w)
              /\ access_token' = StoreToken(access_token, resp.field)
              /\ auth_header' = Bearer(resp.field.v)
              /\ last_obtained' = resp.field
              /\ inv' = [inv EXCEPT ![p] =
                     Sending([rec EXCEPT !.tok = resp.field.v, !.warned = CacheWarning(w)],
                             "csrf_login_wait",
                             Request("csrf", "get", auth_header', None))]
    /\ UNCHANGED <<lifecycle, csrf_token, env>>

\* fetch_csrf_token called from line 126 answers; lines 127-130
RecvCsrfLogin(p) ==
    /\ inv[p].pc = "csrf_login_wait"
    /\ \E resp \in CsrfResponses :
         /\ csrf_token' = fetch_csrf_token(csrf_token, resp)
         /\ inv' = [inv EXCEPT ![p] =
                Done(Answered(inv[p], resp), LoginResult(inv[p].tok, resp))]
    /\ UNCHANGED <<lifecycle, access_token, auth_header, cache_file, env, last_obtained>>

\* the protocol layer takes the result; the slot is free again
Finish(p) ==
    /\ inv[p].pc = "done"
    /\ inv' = [inv EXCEPT ![p] = Idle]
    /\ UNCHANGED <<lifecycle, session, env, last_obtained>>

Next ==
    \/ LifespanOpen
    \/ LifespanVerified
    \/ LifespanClose
    \/ \E p \in Procs :
         \/ InvokeTool(p)
         \/ InvokeExport(p)
         \/ InvokeRequest(p)
         \/ InvokeCheck(p)
         \/ InvokeRefresh(p)
         \/ InvokeAuthenticate(p)
         \/ RecvCsrf(p)
         \/ RecvApi(p)
         \/ RecvExport(p)
         \/ RecvMe(p)
         \/ RecvRefresh(p)
         \/ RecvLogin(p)
         \/ RecvCsrfLogin(p)
         \/ Finish(p)

Spec == Init /\ [][Next]_vars

\* Two invocations in flight on the one shared context: the event loop runs
\* one coroutine at a time and switches only at an await, so every
\* interleaving of the steps above is a schedule. The tools taken are the
\* ones that write the credentials, refresh and authenticate (called without
\* credentials of its own), each slot running one invocation.
ConcProcs == {1, 2}
InitConc ==
    /\ phase = "init"
    /\ access_token = None
    /\ auth_header = None
    /\ csrf_token = None
    /\ cache_file \in InitialCacheFiles
    /\ env \in EnvSettings
    /\ inv = [p \in ConcProcs |-> Idle]
    /\ startup_log = <<>>
    /\ clients_created = 0
    /\ close_count = 0
    /\ last_obtained = None

NextConc ==
    \/ LifespanOpen
    \/ LifespanVerified
    \/ LifespanClose
    \/ \E p \in ConcProcs :
         \/ InvokeRefresh(p)
         \/ \E r \in BOOLEAN : Authenticate(p, None, None, r)
         \/ RecvMe(p)
         \/ RecvRefresh(p)
         \/ RecvLogin(p)
         \/ RecvCsrfLogin(p)

SpecConc == InitConc /\ [][NextConc]_vars

\* Two invocations in flight while the server keeps serving: guarded tools
\* that dispatch, and the tools that refresh or log in. Every HTTP call
\* eventually returns or fails: the coroutine awaiting it is resumed.
\* The process starts with a token in its cache file and credentials set.
LiveCacheFiles == {Some(<<"a", "\n">>)}
LiveEnvSettings == {[user |-> Some(<<"admin">>), pass |-> Some(<<"pw">>)]}
InitLive ==
    /\ phase = "init"
    /\ access_token = None
    /\ auth_header = None
    /\ csrf_token = None
    /\ cache_file \in LiveCacheFiles
    /\ env \in LiveEnvSettings
    /\ inv = [p \in ConcProcs |-> Idle]
    /\ startup_log = <<>>
    /\ clients_created = 0
    /\ close_count = 0
    /\ last_obtained = None

Respond(p) ==
    \/ RecvCsrf(p)
    \/ RecvApi(p)
    \/ RecvMe(p)
    \/ RecvRefresh(p)
    \/ RecvLogin(p)
    \/ RecvCsrfLogin(p)

NextLive ==
    \/ LifespanOpen
    \/ LifespanVerified
    \/ \E p \in ConcProcs :
         \/ InvokeTool(p)
         \/ InvokeRefresh(p)
         \/ Authenticate(p, None, None, FALSE)
         \/ Respond(p)

SpecLive ==
    /\ InitLive
    /\ [][NextLive]_vars
    /\ WF_vars(LifespanOpen \/ LifespanVerified)
    /\ \A p \in ConcProcs : WF_vars(Respond(p))

\* ------------------------------------------------------------------ claims
\* what one invocation did, read from its request log
CallsTo(rec, ep) == Cardinality({i \in DOMAIN rec.log : rec.log[i].ep = ep})
NthCall(rec, ep, n) ==
    CHOOSE i \in DOMAIN rec.log :
        rec.log[i].ep = ep /\ Cardinality({j \in 1..i : rec.log[j].ep = ep}) = n
IsDispatch(rec) == rec.kind \in {"tool", "request"}
IsTool(rec) == rec.kind \in {"tool", "export", "check", "refresh", "auth"}
\* p starts a new invocation in this step
Invoked(p, kind) == inv[p].pc = "idle" /\ inv'[p].kind = kind
\* the response that arrives in this step
Arrives(p, pc) ==
    inv[p].pc = pc /\ inv'[p].pc # pc /\ Len(inv'[p].log) >= Len(inv[p].log)
Arrived(p) == inv'[p].log[Len(inv[p].log)].resp
\* the dispatch of rec got 401 from its first underlying call
First401(rec) ==
    /\ IsDispatch(rec) /\ rec.pc = "done" /\ rec.auto_refresh
    /\ CallsTo(rec, "api") >= 1
    /\ rec.log[NthCall(rec, "api", 1)].resp.status = 401
\* some refresh / login of rec obtained a token
Obtained(rec, ep) ==
    \E i \in DOMAIN rec.log :
        rec.log[i].ep = ep /\ RefreshOutcome(rec.log[i].resp).shape = "refreshed"

\* C1: invoking a tool wrapped with the authenticated guard in a state without
\* access token returns exactly the unauthenticated error payload in that very
\* step, without running the tool body and without any HTTP call.
C1_GuardShortCircuits ==
    [][\A p \in Procs :
         (Invoked(p, "tool") /\ inv'[p].ctx_ok /\ Falsy(access_token))
         => /\ inv'[p].pc = "done"
            /\ inv'[p].result = Return("unauthenticated")
            /\ ~inv'[p].body
            /\ inv'[p].log = <<>>]_vars

C1_Witness ==
    \E p \in Procs :
        /\ inv[p].kind = "tool" /\ inv[p].pc = "done" /\ inv[p].ctx_ok
        /\ ~access_token.some
        /\ inv[p].result = Return("unauthenticated")

\* C2: every finished tool invocation hands a plain result object to the
\* protocol layer; an exception raised while it ran has become
\* {"error": "Error in <tool name>: <message>"}.
C2_NeverRaises ==
    \A p \in Procs :
        (IsTool(inv[p]) /\ inv[p].pc = "done") => inv[p].result.out = "return"

\* C3: a dispatch through the auto-refresh wrapper whose first underlying call
\* answered 401 has POSTed the refresh endpoint exactly once; when that refresh
\* obtained a token the call was executed exactly twice and no login was made,
\* and a second answer of 200 is returned as the parsed payload.
C3_RetryOn401 ==
    \A p \in Procs :
        First401(inv[p])
        => /\ CallsTo(inv[p], "refresh") = 1
           /\ Obtained(inv[p], "refresh")
              => /\ CallsTo(inv[p], "api") = 2
                 /\ CallsTo(inv[p], "login") = 0
                 /\ LET second == inv[p].log[NthCall(inv[p], "api", 2)].resp IN
                    (second.status = 200 /\ Parses(second.text))
                    => /\ inv[p].result.shape = "json"
                       /\ inv[p].result.text = second.text

\* C4: a dispatch whose first underlying call answered 401 and in which neither
\* a refresh nor a login obtained a token ends in the authentication error
\* (HTTPException 401 "Authentication failed", as raised or as normalized by
\* the tool's guard), with the underlying call executed exactly once.
C4_ExhaustionIsAuthError ==
    \A p \in Procs :
        (First401(inv[p]) /\ ~Obtained(inv[p], "refresh") /\ ~Obtained(inv[p], "login"))
        => /\ CallsTo(inv[p], "api") = 1
           /\ inv[p].result.msg = "Authentication failed"

\* C5: a dispatch whose first answer is not 401 executed its call exactly once,
\* attempted no refresh or login and returns that answer; after a first 401
\* that no failed recovery ended, the call was executed a second time (and no
\* more) and the second answer is returned whatever its status.
C5_OnceOrTwice ==
    \A p \in Procs :
        LET rec == inv[p] IN
        (IsDispatch(rec) /\ rec.pc = "done" /\ rec.auto_refresh /\ CallsTo(rec, "api") >= 1)
        => LET first == rec.log[NthCall(rec, "api", 1)].resp IN
           /\ (~first.exc /\ first.status # 401)
              => /\ CallsTo(rec, "api") = 1
                 /\ CallsTo(rec, "refresh") = 0 /\ CallsTo(rec, "login") = 0
                 /\ rec.result = handle_platform_errors(rec.name, MapResponse(first))
           /\ CallsTo(rec, "api") <= 2
           /\ (first.status = 401
               /\ \A i \in DOMAIN rec.log :
                     rec.log[i].ep \in {"refresh", "login"}
                     => RefreshOutcome(rec.log[i].resp).shape = "refreshed")
              => /\ CallsTo(rec, "api") = 2
                 /\ LET second == rec.log[NthCall(rec, "api", 2)].resp IN
                    second.status = 401
                    => rec.result = ReturnStatus("api_failed", 401, second.text)

\* the response make_platform_request maps at lines 172-176: the answer of the
\* last underlying call, unless the auto-refresh wrapper kept it (401) or the
\* call failed at transport level
Final(rec) == rec.log[NthCall(rec, "api", CallsTo(rec, "api"))].resp
Mapped(rec) ==
    /\ IsDispatch(rec) /\ rec.pc = "done" /\ CallsTo(rec, "api") >= 1
    /\ ~Final(rec).exc
    /\ ~(rec.auto_refresh /\ Final(rec).status = 401)

\* C6 (as claimed): every final response with status 200 or 201 yields the
\* parsed JSON body, every other status s with body b yields
\* {"error": "API request failed: <s> - <b>"}; nothing is raised.
C6_ResponseMapping ==
    \A p \in Procs :
        Mapped(inv[p])
        => /\ inv[p].result.out = "return"
           /\ IF Final(inv[p]).status \in {200, 201}
              THEN inv[p].result.shape = "json" /\ inv[p].result.text = Final(inv[p]).text
              ELSE inv[p].result =
                       ReturnStatus("api_failed", Final(inv[p]).status, Final(inv[p]).text)

\* C6 (amended): a final response with status 200 or 201 whose body parses as
\* JSON yields the parsed body; every other status s with body b yields
\* {"error": "API request failed: <s> - <b>"} and is never raised; a 200/201
\* body that does not parse makes response.json() raise out of the dispatcher.
C6_ResponseMappingParsed ==
    \A p \in Procs :
        Mapped(inv[p])
        => LET final == Final(inv[p])
               r == inv[p].result
           IN IF final.status \notin {200, 201}
              THEN r = ReturnStatus("api_failed", final.status, final.text)
              ELSE IF final.text = JsonText
              THEN r.out = "return" /\ r.shape = "json" /\ r.text = final.text
              ELSE IF inv[p].wrapped
              THEN r.shape = "error_in" /\ r.tool = inv[p].name
              ELSE r.out = "raise" /\ r.shape = "JSONDecodeError"

C6_Witness ==
    \E p \in Procs :
        /\ Mapped(inv[p])
        /\ Final(inv[p]).status = 404 /\ Final(inv[p]).text = PlainText
        /\ inv[p].result = ReturnStatus("api_failed", 404, "not found")

\* C7: authenticate with a token whose identity check answers 200 returns
\* "already authenticated" with the current token after that single HTTP call,
\* whatever its arguments, and none of its steps touches access_token, the
\* Authorization header, csrf_token or the cache file.
C7_AuthenticateIdempotent ==
    [][\A p \in Procs :
         /\ (Invoked(p, "auth") /\ inv'[p].ctx_ok /\ Truthy(access_token))
            => /\ UNCHANGED session
               /\ inv'[p].pc = "me_wait"
               /\ Len(inv'[p].log) = 1 /\ inv'[p].log[1].ep = "me"
         /\ (inv[p].kind = "auth" /\ Arrives(p, "me_wait") /\ Arrived(p).status = 200)
            => /\ UNCHANGED session
               /\ inv'[p].pc = "done"
               /\ inv'[p].result = ReturnToken("already_authenticated", access_token)
               /\ Len(inv'[p].log) = 1
               /\ CallsTo(inv'[p], "refresh") = 0 /\ CallsTo(inv'[p], "login") = 0]_vars

C7_Witness ==
    \E p \in Procs :
        /\ inv[p].kind = "auth" /\ inv[p].pc = "done"
        /\ inv[p].result = ReturnToken("already_authenticated", access_token)
        /\ access_token.some /\ inv[p].username.some /\ ~inv[p].refresh

\* a refresh POST of p (the refresh tool, or the refresh inside authenticate)
\* is answered 200 with a non-empty access_token in this step
RefreshSucceeds(p) ==
    /\ Arrives(p, "refresh_wait")
    /\ Arrived(p).status = 200 /\ Parses(Arrived(p).text) /\ Truthy(Arrived(p).field)

\* C8 (as claimed): after a refresh answered 200 with a non-empty token T,
\* access_token is T, the default Authorization header is "Bearer T", the
\* cache file holds exactly T and loading the cache returns T.
C8_RefreshRoundTrip ==
    [][\A p \in Procs :
         RefreshSucceeds(p)
         => /\ access_token' = Arrived(p).field
            /\ auth_header' = Some(<<"Bearer ">> \o Arrived(p).field.v)
            /\ cache_file' = Arrived(p).field
            /\ load_cached_token(cache_file', TRUE) = Arrived(p).field]_vars

\* C8 (amended): after a refresh answered 200 with a non-empty token T,
\* access_token is T and the default Authorization header is "Bearer T";
\* unless writing the cache failed (a warning is logged), the cache file holds
\* exactly T and loading it returns T without its surrounding whitespace.
C8_RefreshRoundTripBestEffort ==
    [][\A p \in Procs :
         RefreshSucceeds(p)
         => /\ access_token' = Arrived(p).field
            /\ auth_header' = Some(<<"Bearer ">> \o Arrived(p).field.v)
            /\ inv'[p].result = ReturnToken("refreshed", Arrived(p).field)
            /\ ~inv'[p].warned
               => /\ cache_file' = Arrived(p).field
                  /\ load_cached_token(cache_file', TRUE) = Some(Strip(Arrived(p).field.v))]_vars

C8_Witness ==
    \E p \in Procs :
        /\ inv[p].kind = "refresh" /\ inv[p].pc = "done" /\ ~inv[p].warned
        /\ inv[p].result = ReturnToken("refreshed", Some(TokB))
        /\ access_token = Some(TokB) /\ cache_file = Some(TokB)
        /\ auth_header = Some(<<"Bearer ", "b">>)

\* the refresh POST of p is answered in this step by something other than a
\* 200 carrying a token
RefreshFails(p) ==
    /\ Arrives(p, "refresh_wait")
    /\ \/ Arrived(p).exc
       \/ Arrived(p).status # 200
       \/ ~Arrived(p).field.some

\* C9: refresh without access token returns an error without any network
\* call; a refresh POST answered by a non-200 status, by a 200 without token
\* field or by a transport failure makes refresh return a structured error;
\* in all these cases access_token, the Authorization header, csrf_token and
\* the cache file stay as they were.
C9_RefreshFailureFrame ==
    [][\A p \in Procs :
         /\ (Invoked(p, "refresh") /\ inv'[p].ctx_ok /\ Falsy(access_token))
            => /\ UNCHANGED session
               /\ inv'[p].pc = "done" /\ inv'[p].log = <<>>
               /\ inv'[p].result = Return("no_token_to_refresh")
         /\ RefreshFails(p)
            => /\ UNCHANGED session
               /\ inv[p].kind = "refresh"
                  => /\ inv'[p].pc = "done"
                     /\ inv'[p].result.out = "return"
                     /\ inv'[p].result.shape \in {"refresh_failed", "refresh_no_token", "refresh_exc"}
                     /\ Len(inv'[p].log) = 1]_vars

C9_Witness ==
    \E p \in Procs :
        /\ inv[p].kind = "refresh" /\ inv[p].pc = "done"
        /\ inv[p].result = Return("refresh_no_token")
        /\ access_token = Some(TokA) /\ cache_file = Some(<<"a", "\n">>)

\* C10: checkValidity without access token returns
\* {valid: false, error: "No access token available"} and makes no HTTP call;
\* with a token it issues exactly one identity-check GET and reports valid iff
\* the status is 200, never raising; none of its steps modifies access_token,
\* the Authorization header, csrf_token or the cache file.
C10_CheckValidity ==
    [][\A p \in Procs :
         /\ (Invoked(p, "check") /\ inv'[p].ctx_ok)
            => /\ UNCHANGED session
               /\ IF Falsy(access_token)
                  THEN /\ inv'[p].pc = "done" /\ inv'[p].log = <<>>
                       /\ inv'[p].result = Return("invalid_no_token")
                  ELSE /\ inv'[p].pc = "me_wait"
                       /\ Len(inv'[p].log) = 1
                       /\ inv'[p].log[1].ep = "me" /\ inv'[p].log[1].verb = "get"
         /\ (inv[p].kind = "check" /\ Arrives(p, "me_wait"))
            => /\ UNCHANGED session
               /\ inv'[p].pc = "done" /\ Len(inv'[p].log) = 1
               /\ inv'[p].result.out = "return"
               /\ inv'[p].result.shape = "valid"
                  <=> (~Arrived(p).exc /\ Arrived(p).status = 200)
               /\ inv'[p].result.shape \in {"valid", "invalid_status", "invalid_exc"}
               /\ inv'[p].result.shape = "invalid_status"
                  => /\ inv'[p].result.status = Arrived(p).status
                     /\ inv'[p].result.text = Arrived(p).text]_vars

C10_Witness ==
    \E p \in Procs :
        /\ inv[p].kind = "check" /\ inv[p].pc = "done"
        /\ inv[p].result = ReturnStatus("invalid_status", 401, PlainText)
        /\ Len(inv[p].log) = 1 /\ access_token.some

\* p sends a request in this step
Sends(p) == Len(inv'[p].log) > Len(inv[p].log)
Sent(p) == inv'[p].log[Len(inv'[p].log)]
MutatingVerbs == {"post", "put", "delete"}

\* C11: whenever csrf_token holds a token, every POST, PUT or DELETE sent
\* upstream (dispatched calls, the refresh POST, the login POST) carries it in
\* X-CSRFToken; a GET never carries the header, and dispatching a GET sends no
\* CSRF fetch.
C11_CsrfHeaderOnMutations ==
    [][\A p \in Procs :
         /\ Sends(p)
            => /\ (Sent(p).verb \in MutatingVerbs /\ Truthy(csrf_token'))
                  => Sent(p).csrf = csrf_token'
               /\ Sent(p).verb = "get" => Sent(p).csrf = None
         /\ (inv[p].pc = "idle" /\ IsDispatch(inv'[p]) /\ Lower(inv'[p].method) = "get")
            => CallsTo(inv'[p], "csrf") = 0]_vars

\* the token the cache file yields at startup (None: nothing usable cached)
Cached == IF cache_file.some /\ Strip(cache_file.v) # <<>>
          THEN Some(Strip(cache_file.v)) ELSE None

\* C12: when startup completes, access_token is present iff a token was
\* cached and the single identity-check GET answered 200 (it is then the
\* cached token, with its Authorization header); otherwise access_token and
\* the header are absent; the context is yielded in every case, startup sends
\* nothing but that one GET, and nothing at all when no token is cached.
C12_StartupVerification ==
    [][/\ (phase # "serving" /\ phase' = "serving")
          => /\ clients_created' = 1
             /\ Len(startup_log') <= 1
             /\ ~Cached.some => startup_log' = <<>>
             /\ startup_log' # <<>>
                => /\ Cached.some
                   /\ startup_log'[1].ep = "me" /\ startup_log'[1].verb = "get"
                   /\ startup_log'[1].auth = Some(<<"Bearer ">> \o Cached.v)
             /\ access_token'.some
                <=> /\ startup_log' # <<>>
                    /\ ~startup_log'[1].resp.exc /\ startup_log'[1].resp.status = 200
             /\ IF access_token'.some
                THEN /\ access_token' = Cached
                     /\ auth_header' = Some(<<"Bearer ">> \o Cached.v)
                ELSE auth_header' = None
             /\ \A p \in Procs : CallsTo(inv'[p], "refresh") + CallsTo(inv'[p], "login") = 0
       /\ phase = "serving" => startup_log' = startup_log]_vars

C12_Witness ==
    /\ phase = "serving"
    /\ cache_file = Some(<<"a", "\n">>)
    /\ Len(startup_log) = 1 /\ startup_log[1].resp.status = 401
    /\ access_token = None /\ auth_header = None
    /\ \A p \in Procs : inv[p].pc = "idle"
    /\ ~last_obtained.some

\* C13: one client is created, at startup; aclose() has been called exactly
\* once when serving has ended, by a normal stop or by an exception, and not
\* at all before.
C13_ClosedExactlyOnce ==
    /\ clients_created = (IF phase = "init" THEN 0 ELSE 1)
    /\ close_count = (IF phase \in {"stopped", "failed"} THEN 1 ELSE 0)

C13_Witness == phase = "failed" /\ close_count = 1 /\ clients_created = 1

\* the login POST of p is answered 200 with a non-empty access_token
LoginSucceeds(p) ==
    /\ Arrives(p, "login_wait")
    /\ ~Arrived(p).exc /\ Arrived(p).status = 200
    /\ Parses(Arrived(p).text) /\ Truthy(Arrived(p).field)
LoginFails(p) == Arrives(p, "login_wait") /\ ~LoginSucceeds(p)
\* what C14 says of a failed login and of the end of authenticate
C14_Rest(p) ==
    /\ LoginFails(p)
       => /\ inv'[p].pc = "done" /\ inv'[p].result.out = "return"
          /\ inv'[p].result.shape \in {"login_failed", "login_no_token", "login_exc"}
    /\ Arrives(p, "csrf_login_wait")
       => /\ inv'[p].pc = "done"
          /\ inv'[p].result = ReturnToken("authenticated", Some(inv[p].tok))

\* C14 (as claimed): a login POST answered 200 with a non-empty token T writes
\* T to the cache, makes access_token T and the header "Bearer T", and only
\* then sends the CSRF fetch; authenticate returns success with T whatever
\* the CSRF fetch answers; a failed login returns a structured error.
C14_LoginEffects ==
    [][\A p \in Procs :
         /\ LoginSucceeds(p)
            => /\ cache_file' = Arrived(p).field
               /\ access_token' = Arrived(p).field
               /\ auth_header' = Some(<<"Bearer ">> \o Arrived(p).field.v)
               /\ inv'[p].pc = "csrf_login_wait" /\ inv'[p].tok = Arrived(p).field.v
               /\ Sends(p) /\ Sent(p).ep = "csrf" /\ Sent(p).auth = auth_header'
         /\ C14_Rest(p)]_vars

\* C14 (amended): as claimed, except that the cache write is best-effort: the
\* cache file holds T unless the write failed and a warning was logged.
C14_LoginEffectsBestEffort ==
    [][\A p \in Procs :
         /\ LoginSucceeds(p)
            => /\ ~inv'[p].warned => cache_file' = Arrived(p).field
               /\ access_token' = Arrived(p).field
               /\ auth_header' = Some(<<"Bearer ">> \o Arrived(p).field.v)
               /\ inv'[p].pc = "csrf_login_wait" /\ inv'[p].tok = Arrived(p).field.v
               /\ Sends(p) /\ Sent(p).ep = "csrf" /\ Sent(p).auth = auth_header'
         /\ C14_Rest(p)]_vars

C14_Witness ==
    \E p \in Procs :
        /\ inv[p].kind = "auth" /\ inv[p].pc = "done" /\ ~inv[p].warned
        /\ inv[p].result = ReturnToken("authenticated", Some(TokB))
        /\ inv[p].log[Len(inv[p].log)].ep = "csrf"
        /\ inv[p].log[Len(inv[p].log)].resp.status = 500
        /\ access_token = Some(TokB) /\ cache_file = Some(TokB)
        /\ auth_header = Some(<<"Bearer ", "b">>)

\* C16: the server main.py builds runs the session lifecycle: one context has
\* been created before a tool invocation is handled, and every tool
\* invocation handled under that server's lifespan reads it through
\* ctx.request_context.lifespan_context.
C16_LifecycleAttached ==
    \A p \in Procs :
        (IsTool(inv[p]) /\ inv[p].pc # "idle"
            /\ inv[p].ctx_ok = IsAnalyticsContext(MCP_lifespan))
        => /\ inv[p].ctx_ok
           /\ clients_created = 1

\* username and password of the invocation p runs in the next state resolve
\* to non-empty values from the arguments or the configured defaults
Resolves(p) ==
    /\ Truthy(PyOr(inv'[p].username, env.user))
    /\ Truthy(PyOr(inv'[p].password, env.pass))
Valid(resp) == ~resp.exc /\ resp.status = 200
\* authenticate of p comes to its full-login part in this step: no token at
\* entry, or the token reported invalid and no refresh asked, or the refresh
\* it asked for answered with an error
ReachesLogin(p) ==
    \/ Invoked(p, "auth") /\ inv'[p].ctx_ok /\ Falsy(access_token)
    \/ /\ inv[p].kind = "auth" /\ Arrives(p, "me_wait")
       /\ ~Valid(Arrived(p)) /\ ~inv[p].refresh
    \/ /\ inv[p].kind = "auth" /\ Arrives(p, "refresh_wait")
       /\ inv[p].refresh /\ ~Valid(inv[p].log[1].resp)
       /\ ~RefreshSucceeds(p)

\* C17: authenticate sends the login POST only when it comes to its
\* full-login part and both credentials resolve; there, without resolved
\* credentials, it returns the "credentials not provided" error and sends
\* nothing; when the token is invalid, refresh is asked and the refresh
\* succeeds, it returns the refresh result and sends no login POST.
C17_AuthenticateOrder ==
    [][\A p \in Procs :
         /\ (Sends(p) /\ Sent(p).ep = "login") => (ReachesLogin(p) /\ Resolves(p))
         /\ (ReachesLogin(p) /\ Resolves(p)) => (Sends(p) /\ Sent(p).ep = "login")
         /\ (ReachesLogin(p) /\ ~Resolves(p))
            => (~Sends(p) /\ inv'[p].pc = "done"
                /\ inv'[p].result = Return("no_credentials"))
         /\ (inv[p].kind = "auth" /\ RefreshSucceeds(p))
            => /\ ~Sends(p) /\ inv'[p].pc = "done"
               /\ inv'[p].result = ReturnToken("refreshed", Arrived(p).field)
               /\ CallsTo(inv'[p], "login") = 0]_vars

C17_Witness ==
    \E p \in Procs :
        /\ inv[p].kind = "auth" /\ inv[p].pc = "login_wait" /\ inv[p].refresh
        /\ Len(inv[p].log) = 3
        /\ inv[p].log[1].ep = "me" /\ inv[p].log[1].resp.status = 401
        /\ inv[p].log[2].ep = "refresh" /\ inv[p].log[2].resp.status = 401
        /\ inv[p].log[3].ep = "login"
        /\ ~inv[p].username.some /\ Truthy(env.user)

\* C18: a dispatch whose first underlying call answered 401 has made one
\* re-authentication attempt: at least one of refresh and login was POSTed,
\* each at most once, and the call was executed a second time when the
\* recovery obtained a token.
C18_OneReauthentication ==
    \A p \in Procs :
        First401(inv[p])
        => /\ CallsTo(inv[p], "refresh") + CallsTo(inv[p], "login") >= 1
           /\ CallsTo(inv[p], "refresh") <= 1
           /\ CallsTo(inv[p], "login") <= 1
           /\ (Obtained(inv[p], "refresh") \/ Obtained(inv[p], "login"))
              => CallsTo(inv[p], "api") = 2

\* C19: a request dispatched with auto_refresh while access_token is absent
\* ends in that very step with the authentication-required error (HTTP 401
\* "Not authenticated"), for every method and whether or not a CSRF token is
\* held, and has sent nothing.
C19_NoTokenNoCall ==
    [][\A p \in Procs :
         (Invoked(p, "request") /\ inv'[p].auto_refresh /\ Falsy(access_token))
         => /\ inv'[p].pc = "done"
            /\ inv'[p].log = <<>>
            /\ inv'[p].result.out = "raise"
            /\ inv'[p].result.shape = "HTTPException"
            /\ inv'[p].result.msg = "Not authenticated"]_vars

\* C20: once csrf_token holds a token no step makes it absent, and a CSRF
\* fetch answered with a status other than 200 or failing at transport level
\* leaves csrf_token as it was.
C20_CsrfNeverCleared ==
    [][/\ Truthy(csrf_token) => Truthy(csrf_token')
       /\ \A p \in Procs :
            ((Arrives(p, "csrf_wait") \/ Arrives(p, "csrf_login_wait"))
                /\ ~Valid(Arrived(p)))
            => csrf_token' = csrf_token]_vars

\* C15: with invocations that refresh or log in interleaved on the shared
\* context, access_token and the default Authorization header denote the same
\* token at every suspension point (both absent, or the header is "Bearer "
\* followed by access_token), and access_token is the token of the refresh or
\* login whose response was processed last.
C15_LastWriteWins ==
    /\ IF access_token.some
       THEN auth_header = Some(<<"Bearer ">> \o access_token.v)
       ELSE auth_header = None
    /\ last_obtained.some => access_token = last_obtained

\* both refresh POSTs were sent under the cached token before either answer
\* was processed; the one processed last brought the token now held
C15_Witness ==
    /\ DOMAIN inv = ConcProcs
    /\ \A p \in ConcProcs :
          /\ inv[p].kind = "refresh" /\ inv[p].pc = "done"
          /\ Len(inv[p].log) = 1
          /\ inv[p].log[1].auth = Some(<<"Bearer ", "a">>)
    /\ inv[1].result = ReturnToken("refreshed", Some(TokB))
    /\ inv[2].result = ReturnToken("refreshed", Some(TokPad))
    /\ access_token = Some(TokPad) /\ last_obtained = Some(TokPad)
    /\ auth_header = Some(<<"Bearer ", "b", " ">>)

\* p enters the dispatcher in this step (a guarded tool: past its guard)
DispatchEntered(p) ==
    \/ Invoked(p, "request")
    \/ Invoked(p, "tool") /\ inv'[p].body
Mutating(rec) == Lower(rec.method) \in MutatingVerbs

C22_TransportFailure ==
    [][\A p \in Procs :
         (Arrives(p, "api_wait") /\ Arrived(p).exc)
         => /\ inv'[p].pc = "done" /\ ~Sends(p)
            /\ CallsTo(inv'[p], "api") = 1
            /\ CallsTo(inv'[p], "refresh") = 0 /\ CallsTo(inv'[p], "login") = 0
            /\ IF inv[p].kind = "tool"
               THEN inv'[p].result =
                        Result("return", "error_in", 0, "", None, inv[p].name, Arrived(p).text)
               ELSE /\ inv'[p].result.out = "raise"
                    /\ inv'[p].result.msg = Arrived(p).text]_vars

C22_Witness ==
    \E p \in Procs :
        /\ inv[p].kind = "tool" /\ inv[p].pc = "done" /\ inv[p].auto_refresh
        /\ Len(inv[p].log) = 1 /\ inv[p].log[1].ep = "api" /\ inv[p].log[1].resp.exc
        /\ inv[p].result.out = "return" /\ inv[p].result.shape = "error_in"
        /\ inv[p].result.tool = inv[p].name /\ inv[p].result.msg = "connect failed"

\* C23: a dispatch with a method other than GET, POST, PUT, DELETE (in any
\* case) has ended by raising to its caller and has sent no request at all.
C23_UnsupportedFailsFast ==
    \A p \in Procs :
        (inv[p].kind = "request" /\ Lower(inv[p].method) \notin SupportedMethods)
        => /\ inv[p].pc = "done"
           /\ inv[p].log = <<>>
           /\ inv[p].result.out = "raise"

\* C26: once the context is being served, no step takes access_token from
\* present to absent.
C26_TokenNeverCleared ==
    [][(phase = "serving" /\ Truthy(access_token)) => Truthy(access_token')]_vars

\* validity check, refresh and login have all failed; the token is still held
C26_Witness ==
    /\ phase = "serving" /\ Truthy(access_token)
    /\ \E p \in Procs :
          /\ inv[p].kind = "auth" /\ inv[p].pc = "done"
          /\ Len(inv[p].log) = 3
          /\ inv[p].log[1].ep = "me" /\ inv[p].log[1].resp.status = 401
          /\ inv[p].log[2].ep = "refresh" /\ inv[p].log[2].resp.status = 401
          /\ inv[p].log[3].ep = "login"
          /\ inv[p].result.shape \in {"login_failed", "login_no_token", "login_exc"}

\* C28: the underlying call of a dispatch carries the query parameters the
\* dispatcher was given, whatever the method, and for POST and PUT the body
\* it was given, as JSON.
C28_ArgumentsReachCall ==
    [][\A p \in Procs :
         (Sends(p) /\ Sent(p).ep = "api")
         => /\ Sent(p).params = inv'[p].params
            /\ Sent(p).verb \in {"post", "put"} => Sent(p).json = inv'[p].data]_vars

\* the tools decorated with requires_authentication, and the endpoints the
\* dispatcher and the recovery it starts send to
GuardedTools == {"tool", "export"}
DispatcherEndpoints == {"csrf", "api", "refresh", "login"}

\* C24: a tool that requires authentication runs under both guards and sends
\* its upstream call through the dispatcher only; when that call has been
\* answered 401 and the tool has finished, a refresh was attempted.
C24_ToolsUseDispatcher ==
    \A p \in Procs :
        inv[p].kind \in GuardedTools
        => /\ inv[p].wrapped
           /\ \A i \in DOMAIN inv[p].log : inv[p].log[i].ep \in DispatcherEndpoints
           /\ (inv[p].pc = "done"
                 /\ \E i \in DOMAIN inv[p].log :
                       inv[p].log[i].ep \notin {"csrf", "refresh", "login"}
                       /\ inv[p].log[i].resp.status = 401)
              => CallsTo(inv[p], "refresh") >= 1

\* the requests of rec, before its n-th, that brought a token from `ep`
Brought(rec, ep, n) ==
    {i \in 1..(n - 1) :
        /\ rec.log[i].ep = ep
        /\ Valid(rec.log[i].resp) /\ Parses(rec.log[i].resp.text)
        /\ Truthy(rec.log[i].resp.field)}
Latest(S) == CHOOSE i \in S : \A j \in S : j <= i

\* C27: a dispatch whose first underlying call answered 401 ends either in
\* the authentication error of an exhausted recovery or with its call
\* executed a second time, after the recovery: that second call carries
\* "Bearer " and the token the recovery obtained last, and for a mutating verb
\* the CSRF token held then (one fetched during the re-login if there is one).
C27_ReissueCarriesNewCredentials ==
    \A p \in Procs :
        LET rec == inv[p] IN
        First401(rec)
        => \/ rec.result.msg = "Authentication failed"
           \/ /\ CallsTo(rec, "api") = 2
              /\ LET n == NthCall(rec, "api", 2)
                     first == rec.log[NthCall(rec, "api", 1)]
                     second == rec.log[n]
                     tokens == Brought(rec, "refresh", n) \cup Brought(rec, "login", n)
                     csrfs == Brought(rec, "csrf", n)
                 IN /\ tokens # {}
                    /\ second.auth = Bearer(rec.log[Latest(tokens)].resp.field.v)
                    /\ Mutating(rec)
                       => second.csrf = (IF csrfs = {} THEN first.csrf
                                         ELSE rec.log[Latest(csrfs)].resp.field)

\* C25: with invocations interleaved on the shared context and every HTTP
\* call eventually answered, each invocation that has started eventually
\* ends, and none executes its own underlying request more than twice,
\* whatever the other invocation receives, refreshes or logs in.
C25_RunsToCompletion ==
    /\ [](\A p \in ConcProcs : CallsTo(inv[p], "api") <= 2)
    /\ \A p \in ConcProcs : (inv[p].pc # "idle") ~> (inv[p].pc = "done")

\* a tool got 401 for a call sent under the token the other invocation has
\* replaced in the meantime; both have ended
C25_Witness ==
    /\ DOMAIN inv = ConcProcs
    /\ inv[1].kind = "tool" /\ inv[1].pc = "done"
    /\ CallsTo(inv[1], "api") = 1
    /\ inv[1].log[NthCall(inv[1], "api", 1)].resp.status = 401
    /\ inv[1].log[NthCall(inv[1], "api", 1)].auth # auth_header
    /\ inv[2].kind = "refresh" /\ inv[2].pc = "done"
    /\ inv[2].result.shape = "refreshed"

====
